---- MODULE Spec2Model ----
(***************************************************************************)
(* non_sync::SharedTakeOnce<T> (src/src/lib.rs): a reference-counted heap  *)
(* box whose value can be taken once.  One cell (Inner<T> in a Box) and    *)
(* the handles that point to it.  ref_count is positive while the value is *)
(* in the cell and negative once it was taken; its magnitude counts the    *)
(* handles.                                                                *)
(***************************************************************************)
EXTENDS Integers, Sequences, FiniteSets, TLC

\* Handles ever created for the cell (new and clone together).
MaxHandles == 4

\* Width in bits of the modelled isize (the real one has 16, 32 or 64).
IsizeBits == 8

\* Threads of the thread-shared variant.
MaxThreads == 3

\* Payloads handed to new.
Values == {"a", "b"}

VARIABLES
    cell,             \* the Box: "unallocated", "allocated" or "freed"
    ref_count,        \* Inner.ref_count
    value,            \* Inner.value, the bits in the MaybeUninit
    slot,             \* what those bits are: "uninit", "init", "moved", "dropped"
    handles,          \* the live SharedTakeOnce handles (ids)
    nextId,           \* handles created so far
    arg,              \* the value that was passed to new
    pc,               \* "idle", or "take_drop": take's match is done, self not yet dropped
    self,             \* the handle take is consuming
    ret,              \* the Option<T> take is about to return
    takes,            \* the take calls that returned, in order
    held,             \* values returned by take that the caller still owns
    reads,            \* assume_init_read calls made on the slot
    destructs,        \* payload destructors run by the cell (Drop, count 1)
    callerDrops,      \* payload destructors run by callers on taken values
    frees,            \* Box::from_raw + drop calls made on the cell
    fault,            \* "none" or the way the program went wrong
    op,               \* the operation the last step belonged to
    overflow_checks,  \* the build: TRUE panics on isize overflow, FALSE wraps
    tpc,              \* thread-shared variant: each thread's position
    tres              \* thread-shared variant: what each thread's call gave

vars == <<cell, ref_count, value, slot, handles, nextId, arg, pc, self, ret,
          takes, held, reads, destructs, callerDrops, frees, fault, op,
          overflow_checks, tpc, tres>>

Threads == 1..MaxThreads

----------------------------------------------------------------------------
\* isize

IsizeMax == 2 ^ (IsizeBits - 1) - 1
IsizeMin == -(2 ^ (IsizeBits - 1))
IsizeRange == IsizeMin..IsizeMax

\* Two's complement wrap-around of a mathematical integer into isize.
WrapIsize(x) == ((x - IsizeMin) % (2 ^ IsizeBits)) + IsizeMin

\* isize::signum
Signum(n) == IF n > 0 THEN 1 ELSE IF n < 0 THEN -1 ELSE 0

Abs(n) == IF n < 0 THEN -n ELSE n

\* Option<T>
None == [some |-> FALSE, v |-> "none"]
Some(v) == [some |-> TRUE, v |-> v]

----------------------------------------------------------------------------
\* The three matches on ref_count.

\* new that starts the count at -1, the empty sign.
NewInnerNegative(v) == [ref_count |-> -1, value |-> v]

\* new: the Inner it boxes.
NewInner(v) == [ref_count |-> 1, value |-> v]

\* take that negates ref_count outside the match, on an empty cell too.
TakeMatchNegatesOnEmpty(n) ==
    IF n > 0 THEN [some |-> TRUE, ref_count |-> WrapIsize(-n), fault |-> "none"]
    ELSE IF n < 0 THEN [some |-> FALSE, ref_count |-> WrapIsize(-n), fault |-> "none"]
    ELSE [some |-> FALSE, ref_count |-> n, fault |-> "unreachable"]

\* take that gives back a unit of an empty cell in its None arm already.
TakeMatchReleasesOnEmpty(n) ==
    IF n > 0 THEN [some |-> TRUE, ref_count |-> WrapIsize(-n), fault |-> "none"]
    ELSE IF n < -1 THEN [some |-> FALSE, ref_count |-> n + 1, fault |-> "none"]
    ELSE IF n < 0 THEN [some |-> FALSE, ref_count |-> n, fault |-> "none"]
    ELSE [some |-> FALSE, ref_count |-> n, fault |-> "unreachable"]

\* take that forgets to negate ref_count.
TakeMatchNoNegate(n) ==
    IF n > 0 THEN [some |-> TRUE, ref_count |-> n, fault |-> "none"]
    ELSE IF n < 0 THEN [some |-> FALSE, ref_count |-> n, fault |-> "none"]
    ELSE [some |-> FALSE, ref_count |-> n, fault |-> "unreachable"]

\* take that reads the slot whatever the sign of ref_count.
TakeMatchAlwaysSome(n) ==
    IF n > 0 THEN [some |-> TRUE, ref_count |-> WrapIsize(-n), fault |-> "none"]
    ELSE IF n < 0 THEN [some |-> TRUE, ref_count |-> n, fault |-> "none"]
    ELSE [some |-> FALSE, ref_count |-> n, fault |-> "unreachable"]

\* take: the match on inner.ref_count.
TakeMatch(n) ==
    IF n > 0 THEN [some |-> TRUE, ref_count |-> WrapIsize(-n), fault |-> "none"]
    ELSE IF n < 0 THEN [some |-> FALSE, ref_count |-> n, fault |-> "none"]
    ELSE [some |-> FALSE, ref_count |-> n, fault |-> "unreachable"]

\* drop that reads and destroys the payload whenever the count is positive.
DropMatchEagerDestruct(n) ==
    IF n > 1 THEN
        [ref_count |-> n - 1, destruct |-> TRUE, free |-> FALSE, fault |-> "none"]
    ELSE IF n = 1 THEN
        [ref_count |-> n, destruct |-> TRUE, free |-> TRUE, fault |-> "none"]
    ELSE IF n = -1 THEN
        [ref_count |-> n, destruct |-> FALSE, free |-> TRUE, fault |-> "none"]
    ELSE IF n < -1 THEN
        [ref_count |-> n + 1, destruct |-> FALSE, free |-> FALSE, fault |-> "none"]
    ELSE
        [ref_count |-> n, destruct |-> FALSE, free |-> FALSE, fault |-> "unreachable"]

\* drop that frees the cell of a never-taken value without destroying the value.
DropMatchNoDestruct(n) ==
    IF n > 1 THEN
        [ref_count |-> n - 1, destruct |-> FALSE, free |-> FALSE, fault |-> "none"]
    ELSE IF n = 1 \/ n = -1 THEN
        [ref_count |-> n, destruct |-> FALSE, free |-> TRUE, fault |-> "none"]
    ELSE IF n < -1 THEN
        [ref_count |-> n + 1, destruct |-> FALSE, free |-> FALSE, fault |-> "none"]
    ELSE
        [ref_count |-> n, destruct |-> FALSE, free |-> FALSE, fault |-> "unreachable"]

\* drop that runs the payload's destructor for the last handle of an empty cell too.
DropMatchAlwaysDestruct(n) ==
    IF n > 1 THEN
        [ref_count |-> n - 1, destruct |-> FALSE, free |-> FALSE, fault |-> "none"]
    ELSE IF n = 1 \/ n = -1 THEN
        [ref_count |-> n, destruct |-> TRUE, free |-> TRUE, fault |-> "none"]
    ELSE IF n < -1 THEN
        [ref_count |-> n + 1, destruct |-> FALSE, free |-> FALSE, fault |-> "none"]
    ELSE
        [ref_count |-> n, destruct |-> FALSE, free |-> FALSE, fault |-> "unreachable"]

\* drop that frees an empty cell one handle too early (-1 tested as <= -2).
DropMatchEarlyFree(n) ==
    IF n > 1 THEN
        [ref_count |-> n - 1, destruct |-> FALSE, free |-> FALSE, fault |-> "none"]
    ELSE IF n = 1 THEN
        [ref_count |-> n, destruct |-> TRUE, free |-> TRUE, fault |-> "none"]
    ELSE IF n = -1 \/ n = -2 THEN
        [ref_count |-> n, destruct |-> FALSE, free |-> TRUE, fault |-> "none"]
    ELSE IF n < -2 THEN
        [ref_count |-> n + 1, destruct |-> FALSE, free |-> FALSE, fault |-> "none"]
    ELSE
        [ref_count |-> n, destruct |-> FALSE, free |-> FALSE, fault |-> "unreachable"]

\* drop that decrements an empty cell's count away from zero.
DropMatchWrongWay(n) ==
    IF n > 1 THEN
        [ref_count |-> n - 1, destruct |-> FALSE, free |-> FALSE, fault |-> "none"]
    ELSE IF n = 1 THEN
        [ref_count |-> n, destruct |-> TRUE, free |-> TRUE, fault |-> "none"]
    ELSE IF n = -1 THEN
        [ref_count |-> n, destruct |-> FALSE, free |-> TRUE, fault |-> "none"]
    ELSE IF n < -1 THEN
        [ref_count |-> n - 1, destruct |-> FALSE, free |-> FALSE, fault |-> "none"]
    ELSE
        [ref_count |-> n, destruct |-> FALSE, free |-> FALSE, fault |-> "unreachable"]

\* drop: the match on inner.ref_count.
DropMatch(n) ==
    IF n > 1 THEN
        [ref_count |-> n - 1, destruct |-> FALSE, free |-> FALSE, fault |-> "none"]
    ELSE IF n = 1 THEN
        [ref_count |-> n, destruct |-> TRUE, free |-> TRUE, fault |-> "none"]
    ELSE IF n = -1 THEN
        [ref_count |-> n, destruct |-> FALSE, free |-> TRUE, fault |-> "none"]
    ELSE IF n < -1 THEN
        [ref_count |-> n + 1, destruct |-> FALSE, free |-> FALSE, fault |-> "none"]
    ELSE
        [ref_count |-> n, destruct |-> FALSE, free |-> FALSE, fault |-> "unreachable"]

\* clone that resets the count to a positive one (+= 1 on the magnitude).
CloneCountReset(n) ==
    IF n = 0 THEN [ref_count |-> n, fault |-> "assert"]
    ELSE [ref_count |-> Abs(n) + 1, fault |-> "none"]

\* clone that adds 1 instead of signum.
CloneCountIncrement(n) ==
    IF n = 0 THEN [ref_count |-> n, fault |-> "assert"]
    ELSE [ref_count |-> n + 1, fault |-> "none"]

\* clone: assert_ne!(ref_count, 0), then ref_count += ref_count.signum().
\* The += is isize arithmetic: out of range it panics in a build with overflow
\* checks and wraps in one without.
CloneCount(n) ==
    IF n = 0 THEN [ref_count |-> n, fault |-> "assert"]
    ELSE IF n + Signum(n) \in IsizeRange THEN
        [ref_count |-> n + Signum(n), fault |-> "none"]
    ELSE IF overflow_checks THEN [ref_count |-> n, fault |-> "overflow"]
    ELSE [ref_count |-> WrapIsize(n + Signum(n)), fault |-> "none"]

----------------------------------------------------------------------------
\* State before new is called.

Init ==
    /\ cell = "unallocated"
    /\ ref_count = 0
    /\ value = "none"
    /\ slot = "uninit"
    /\ handles = {}
    /\ nextId = 0
    /\ arg = "none"
    /\ pc = "idle"
    /\ self = 0
    /\ ret = None
    /\ takes = <<>>
    /\ held = 0
    /\ reads = 0
    /\ destructs = 0
    /\ callerDrops = 0
    /\ frees = 0
    /\ fault = "none"
    /\ op = "none"
    /\ overflow_checks \in BOOLEAN
    /\ tpc = [t \in Threads |-> "none"]
    /\ tres = [t \in Threads |-> [k |-> "pending", v |-> "none"]]

\* SharedTakeOnce::new(v)
New(v) ==
    /\ cell = "unallocated"
    /\ fault = "none"
    /\ cell' = "allocated"
    /\ ref_count' = NewInner(v).ref_count
    /\ value' = NewInner(v).value
    /\ slot' = "init"
    /\ arg' = v
    /\ nextId' = 1
    /\ handles' = {1}
    /\ op' = "new"
    /\ UNCHANGED <<pc, self, ret, takes, held, reads, destructs, callerDrops,
                   frees, fault, overflow_checks, tpc, tres>>

\* clone that makes a copy of the payload out of the slot and drops it.
CloneReadingValue(h) ==
    /\ pc = "idle"
    /\ fault = "none"
    /\ h \in handles
    /\ nextId < MaxHandles
    /\ op' = "clone"
    /\ cell = "allocated"
    /\ ref_count' = CloneCount(ref_count).ref_count
    /\ fault' = CloneCount(ref_count).fault
    /\ nextId' = nextId + 1
    /\ handles' = handles \cup {nextId + 1}
    /\ reads' = reads + 1
    /\ destructs' = destructs + 1
    /\ UNCHANGED <<cell, value, slot, arg, pc, self, ret, takes, held,
                   callerDrops, overflow_checks, frees, tpc, tres>>

\* handle.clone()
Clone(h) ==
    /\ pc = "idle"
    /\ fault = "none"
    /\ h \in handles
    /\ nextId < MaxHandles
    /\ op' = "clone"
    /\ IF cell # "allocated"
       THEN /\ fault' = "use_after_free"
            /\ UNCHANGED <<ref_count, handles, nextId>>
       ELSE /\ ref_count' = CloneCount(ref_count).ref_count
            /\ fault' = CloneCount(ref_count).fault
            /\ IF CloneCount(ref_count).fault = "none"
               THEN /\ nextId' = nextId + 1
                    /\ handles' = handles \cup {nextId + 1}
               ELSE UNCHANGED <<handles, nextId>>
    /\ UNCHANGED <<cell, value, slot, arg, pc, self, ret, takes, held, reads,
                   destructs, callerDrops, overflow_checks, frees, tpc, tres>>

\* Drop::drop(&mut handle): what it does to the cell and to the handle.
DropEffect(h) ==
    /\ handles' = handles \ {h}
    /\ IF cell # "allocated"
       THEN /\ fault' = "use_after_free"
            /\ UNCHANGED <<cell, ref_count, slot, reads, destructs, frees>>
       ELSE LET m == DropMatch(ref_count) IN
            /\ ref_count' = m.ref_count
            /\ fault' = m.fault
            /\ reads' = IF m.destruct THEN reads + 1 ELSE reads
            /\ destructs' = IF m.destruct THEN destructs + 1 ELSE destructs
            /\ slot' = IF m.destruct THEN "dropped" ELSE slot
            /\ frees' = IF m.free THEN frees + 1 ELSE frees
            /\ cell' = IF m.free THEN "freed" ELSE cell

\* drop(handle), or a handle going out of scope
Drop(h) ==
    /\ pc = "idle"
    /\ fault = "none"
    /\ h \in handles
    /\ op' = "drop"
    /\ DropEffect(h)
    /\ UNCHANGED <<value, nextId, arg, pc, self, ret, takes, held, callerDrops,
                   overflow_checks, tpc, tres>>

\* handle.take(), up to the end of the match
TakeBody(h) ==
    /\ pc = "idle"
    /\ fault = "none"
    /\ h \in handles
    /\ op' = "take"
    /\ self' = h
    /\ IF cell # "allocated"
       THEN /\ fault' = "use_after_free"
            /\ UNCHANGED <<ref_count, slot, reads, ret, pc>>
       ELSE LET m == TakeMatch(ref_count) IN
            /\ ref_count' = m.ref_count
            /\ fault' = m.fault
            /\ reads' = IF m.some THEN reads + 1 ELSE reads
            /\ slot' = IF m.some THEN "moved" ELSE slot
            /\ ret' = IF m.some THEN Some(value) ELSE None
            /\ pc' = IF m.fault = "none" THEN "take_drop" ELSE pc
    /\ UNCHANGED <<cell, value, handles, nextId, arg, takes, held, destructs,
                   callerDrops, frees, overflow_checks, tpc, tres>>

\* take that forgets self (mem::forget) instead of dropping it.
TakeDropNoRelease ==
    /\ pc = "take_drop"
    /\ fault = "none"
    /\ op' = "take"
    /\ handles' = handles \ {self}
    /\ pc' = "idle"
    /\ takes' = Append(takes, [h |-> self, ret |-> ret, made |-> nextId,
                               live |-> Cardinality(handles)])
    /\ held' = IF ret.some THEN held + 1 ELSE held
    /\ UNCHANGED <<cell, ref_count, slot, reads, destructs, frees, fault, value,
                   nextId, arg, self, ret, callerDrops, overflow_checks, tpc, tres>>

\* handle.take(), its end: self is dropped and the Option goes to the caller
TakeDrop ==
    /\ pc = "take_drop"
    /\ fault = "none"
    /\ op' = "take"
    /\ DropEffect(self)
    /\ pc' = "idle"
    /\ takes' = Append(takes, [h |-> self, ret |-> ret, made |-> nextId,
                               live |-> Cardinality(handles)])
    /\ held' = IF ret.some THEN held + 1 ELSE held
    /\ UNCHANGED <<value, nextId, arg, self, ret, callerDrops, overflow_checks,
                   tpc, tres>>

\* The caller drops a value it got from take.
DropTaken ==
    /\ pc = "idle"
    /\ fault = "none"
    /\ held > 0
    /\ held' = held - 1
    /\ callerDrops' = callerDrops + 1
    /\ op' = "drop_value"
    /\ UNCHANGED <<cell, ref_count, value, slot, handles, nextId, arg, pc, self,
                   ret, takes, reads, destructs, frees, fault, overflow_checks,
                   tpc, tres>>

Next ==
    \/ \E v \in Values : New(v)
    \/ \E h \in handles : Clone(h)
    \/ \E h \in handles : Drop(h)
    \/ \E h \in handles : TakeBody(h)
    \/ TakeDrop
    \/ DropTaken

Spec == Init /\ [][Next]_vars

\* Rc::strong_count(&counter) of the tests: counter itself and the payload.
StrongCount == 2 - destructs - callerDrops

----------------------------------------------------------------------------
\* clone over the whole range of the counter.  The handle followed here is one
\* of the |ref_count| that exist; the others are held elsewhere or were leaked
\* (mem::forget), so their units stay in the count.

InitCounter ==
    /\ cell = "allocated"
    /\ ref_count \in IsizeRange \ {0}
    /\ arg \in Values
    /\ value = arg
    /\ slot = (IF ref_count > 0 THEN "init" ELSE "moved")
    /\ handles = {1}
    /\ nextId = 1
    /\ pc = "idle"
    /\ self = 0
    /\ ret = None
    /\ takes = <<>>
    /\ held = 0
    /\ reads = (IF ref_count > 0 THEN 0 ELSE 1)
    /\ destructs = 0
    /\ callerDrops = (IF ref_count > 0 THEN 0 ELSE 1)
    /\ frees = 0
    /\ fault = "none"
    /\ op = "none"
    /\ overflow_checks \in BOOLEAN
    /\ tpc = [t \in Threads |-> "none"]
    /\ tres = [t \in Threads |-> [k |-> "pending", v |-> "none"]]

NextCounter == \E h \in handles : Clone(h)

SpecCounter == InitCounter /\ [][NextCounter]_vars

----------------------------------------------------------------------------
\* The thread-shared variant (sync::SharedTakeOnce): the same state machine on
\* an atomic counter.  Thread t owns handle t; every action is one atomic
\* operation on the counter, or the winner's read of the slot.

\* take whose sign flip is a plain load: the negated count is never stored.
AtomicFlipLoadOnly(n) ==
    IF n > 0 THEN [some |-> TRUE, ref_count |-> n] ELSE [some |-> FALSE, ref_count |-> n]

\* take's atomic read-modify-write: a positive count is negated and the caller
\* has won; any other count is left alone.
AtomicFlip(n) ==
    IF n > 0 THEN [some |-> TRUE, ref_count |-> -n] ELSE [some |-> FALSE, ref_count |-> n]

\* Two handles of one occupied cell, given to two threads.
InitSync ==
    /\ cell = "allocated"
    /\ ref_count = 2
    /\ arg \in Values
    /\ value = arg
    /\ slot = "init"
    /\ handles = {1, 2}
    /\ nextId = 2
    /\ pc = "idle"
    /\ self = 0
    /\ ret = None
    /\ takes = <<>>
    /\ held = 0
    /\ reads = 0
    /\ destructs = 0
    /\ callerDrops = 0
    /\ frees = 0
    /\ fault = "none"
    /\ op = "none"
    /\ overflow_checks \in BOOLEAN
    /\ tpc = [t \in Threads |-> IF t <= 2 THEN "ready" ELSE "none"]
    /\ tres = [t \in Threads |-> [k |-> "pending", v |-> "none"]]

\* Thread t clones its handle for thread u: an atomic step of the counter.
SyncClone(t, u) ==
    /\ tpc[t] = "ready"
    /\ tpc[u] = "none"
    /\ fault = "none"
    /\ ref_count' = CloneCount(ref_count).ref_count
    /\ fault' = CloneCount(ref_count).fault
    /\ handles' = handles \cup {u}
    /\ nextId' = nextId + 1
    /\ tpc' = [tpc EXCEPT ![u] = "ready"]
    /\ op' = "clone"
    /\ UNCHANGED <<cell, value, slot, arg, pc, self, ret, takes, held, reads,
                   destructs, callerDrops, frees, overflow_checks, tres>>

\* Thread t calls take: the atomic sign flip.
SyncTakeFlip(t) ==
    /\ tpc[t] = "ready"
    /\ fault = "none"
    /\ ref_count' = AtomicFlip(ref_count).ref_count
    /\ IF AtomicFlip(ref_count).some
       THEN /\ tpc' = [tpc EXCEPT ![t] = "read"]
            /\ tres' = tres
       ELSE /\ tpc' = [tpc EXCEPT ![t] = "release"]
            /\ tres' = [tres EXCEPT ![t] = [k |-> "None", v |-> "none"]]
    /\ op' = "take"
    /\ UNCHANGED <<cell, value, slot, handles, nextId, arg, pc, self, ret, takes,
                   held, reads, destructs, callerDrops, frees, fault,
                   overflow_checks>>

\* The thread that won the flip moves the value out of the slot.
SyncTakeRead(t) ==
    /\ tpc[t] = "read"
    /\ fault = "none"
    /\ fault' = (IF cell = "allocated" THEN fault ELSE "use_after_free")
    /\ reads' = reads + 1
    /\ slot' = "moved"
    /\ held' = held + 1
    /\ tres' = [tres EXCEPT ![t] = [k |-> "Some", v |-> value]]
    /\ tpc' = [tpc EXCEPT ![t] = "release"]
    /\ op' = "take"
    /\ UNCHANGED <<cell, ref_count, value, handles, nextId, arg, pc, self, ret,
                   takes, destructs, callerDrops, frees, overflow_checks>>

\* take releases the unit of the handle it consumed.
SyncRelease(t) ==
    /\ tpc[t] = "release"
    /\ fault = "none"
    /\ DropEffect(t)
    /\ tpc' = [tpc EXCEPT ![t] = "done"]
    /\ op' = "take"
    /\ UNCHANGED <<value, nextId, arg, pc, self, ret, takes, held, callerDrops,
                   overflow_checks, tres>>

\* Thread t drops its handle without taking.
SyncDrop(t) ==
    /\ tpc[t] = "ready"
    /\ fault = "none"
    /\ DropEffect(t)
    /\ tpc' = [tpc EXCEPT ![t] = "done"]
    /\ tres' = [tres EXCEPT ![t] = [k |-> "dropped", v |-> "none"]]
    /\ op' = "drop"
    /\ UNCHANGED <<value, nextId, arg, pc, self, ret, takes, held, callerDrops,
                   overflow_checks>>

NextSync ==
    \/ \E t, u \in Threads : SyncClone(t, u)
    \/ \E t \in Threads : SyncTakeFlip(t)
    \/ \E t \in Threads : SyncTakeRead(t)
    \/ \E t \in Threads : SyncRelease(t)
    \/ \E t \in Threads : SyncDrop(t)

SpecSync == InitSync /\ [][NextSync]_vars

----------------------------------------------------------------------------
\* Properties.

\* take calls that returned Some
SomeTakes == {i \in DOMAIN takes : takes[i].ret.some}

\* values handed to a take caller, the call still inside take included
HandedOut ==
    Cardinality(SomeTakes) + (IF pc = "take_drop" /\ ret.some THEN 1 ELSE 0)

\* C1: at-most-once extraction. Over any sequence of clone, drop and take on the
\* handles of one cell at most one take returns Some; when every handle ever
\* created was consumed by take, exactly one call returned Some and the others
\* None.
AtMostOneTakeReturnsSome ==
    /\ HandedOut <= 1
    /\ (nextId >= 1 /\ handles = {} /\ Len(takes) = nextId)
          => Cardinality(SomeTakes) = 1

\* C1 witness: three or more handles, each consumed by take, one Some.
AllHandlesTaken ==
    /\ nextId >= 3
    /\ handles = {}
    /\ Len(takes) = nextId
    /\ Cardinality(SomeTakes) = 1

\* C2: first take wins. The first take to be made on the cell returns Some of
\* the value passed to new, whatever clones and drops came before it; every
\* later take returns None.
FirstTakeWins ==
    \A i \in DOMAIN takes :
        IF i = 1 THEN takes[i].ret = Some(arg) ELSE takes[i].ret = None

\* C2 witness: the first take came after two clones and a drop, and another
\* take followed it.
FirstTakeAfterClonesAndDrops ==
    /\ Len(takes) >= 2
    /\ takes[1].made >= 3
    /\ takes[1].live < takes[1].made
    /\ takes[1].ret = Some(arg)
    /\ takes[2].ret = None

\* C3: exactly-once disposal. The value is never both handed to a take caller
\* and destroyed by the cell, never handed out twice, never destroyed twice; and
\* once every handle is gone it was handed out or destroyed exactly once.
ExactlyOnceDisposal ==
    /\ HandedOut + destructs <= 1
    /\ reads <= 1
    /\ (cell = "freed" /\ handles = {}) => HandedOut + destructs = 1

\* C3 witness: several handles, all dropped, no take: the cell ran the
\* destructor.
AllDroppedNoTake ==
    /\ cell = "freed"
    /\ handles = {}
    /\ nextId >= 2
    /\ takes = <<>>
    /\ destructs = 1

\* C4: no leak, no use after free. The cell is freed exactly once, at the moment
\* its last handle is dropped or consumed, never while a handle is live, and no
\* operation touches a freed cell.
FreedExactlyAtLastHandle ==
    /\ frees = (IF cell = "freed" THEN 1 ELSE 0)
    /\ (cell = "freed") <=> (nextId >= 1 /\ handles = {})
    /\ (cell = "unallocated") <=> (nextId = 0)
    /\ fault # "use_after_free"

\* C4 witness: the cell was freed after a take and drops of other handles.
FreedAfterTakeAndDrops ==
    /\ cell = "freed"
    /\ frees = 1
    /\ nextId >= 3
    /\ Len(takes) = 1
    /\ takes[1].ret.some
    /\ takes[1].live > 1

\* C6: clone preserves the state class. A clone at counter n # 0 leaves
\* n + signum(n); both handles are live afterwards; from an occupied cell a take
\* would still find the value, from an empty one it returns None.
ClonePreservesStateClass ==
    [][op' = "clone" =>
          /\ ref_count # 0
          /\ fault' = "none"
          /\ ref_count' = ref_count + Signum(ref_count)
          /\ handles' = handles \cup {nextId'}
          /\ nextId' \notin handles
          /\ ref_count > 0 => (TakeMatch(ref_count').some /\ slot' = "init")
          /\ ref_count < 0 => (~TakeMatch(ref_count').some /\ slot' = "moved")]_vars

\* C6 witness: a clone was made of the only handle of an empty cell (n = -1).
ClonedAtMinusOne ==
    /\ op = "clone"
    /\ ref_count = -2
    /\ Cardinality(handles) = 2

\* C8: clone leaves the stored value untouched: the slot, the reads of it, the
\* destructor runs and the external strong count are the same after a clone.
CloneLeavesValueUntouched ==
    [][op' = "clone" =>
          /\ UNCHANGED <<value, slot, reads, destructs, callerDrops, held>>
          /\ StrongCount' = StrongCount]_vars

\* C8 witness: the first clone of an occupied cell, strong count 2.
ClonedOccupied ==
    /\ op = "clone"
    /\ nextId = 2
    /\ slot = "init"
    /\ StrongCount = 2

\* C9: handle-count invariant. While the cell is allocated the number of live
\* handles is the magnitude of ref_count, inside take as well.
HandleCountInvariant ==
    cell = "allocated" => Cardinality(handles) = Abs(ref_count)

\* C9 witness: inside a take that found the value, two other handles live.
InsideTakeOfThree ==
    /\ cell = "allocated"
    /\ pc = "take_drop"
    /\ ret.some
    /\ ref_count = -3
    /\ Cardinality(handles) = 3

\* C10: the counter is never zero while a handle exists, between operations and
\* inside take; the unreachable!() arms and clone's assert_ne! are never hit.
CounterNeverZero ==
    /\ handles # {} => ref_count # 0
    /\ fault \notin {"unreachable", "assert"}

\* C10 witness: inside the take of the last handle, counter -1.
InsideTakeOfLast ==
    /\ pc = "take_drop"
    /\ handles = {self}
    /\ ref_count = -1

\* Threads that won the sign flip of take.
Winners == {t \in Threads : tpc[t] = "read" \/ tres[t].k = "Some"}

\* Threads that are past the sign flip of take.
Takers == {t \in Threads : tpc[t] = "read" \/ tres[t].k \in {"Some", "None"}}

\* C5: concurrent take. However the steps of the threads' take calls
\* interleave, exactly one of the threads that called take on the occupied cell
\* wins the flip and gets the value passed to new, the others get None; the
\* slot is read once and the cell is freed once, after the last handle.
ConcurrentTakeOneWinner ==
    /\ Cardinality(Winners) <= 1
    /\ Takers # {} => Cardinality(Winners) = 1
    /\ \A t \in Threads : tres[t].k = "Some" => tres[t].v = arg
    /\ reads <= 1
    /\ frees = (IF cell = "freed" THEN 1 ELSE 0)
    /\ (cell = "freed") <=> (handles = {})
    /\ fault = "none"

\* C5 witness: thread 2 ran its whole take, and got None, between thread 1's
\* flip and thread 1's read of the slot.
TakeInsideTake ==
    /\ tpc[1] = "read"
    /\ tpc[2] = "done"
    /\ tres[2].k = "None"

\* C7: clone never fails: at every non-zero counter, the largest and the most
\* negative included, it ends without a panic and leaves a counter of the same
\* sign and a magnitude one greater.
CloneNeverFails ==
    [][op' = "clone" =>
          /\ fault' = "none"
          /\ ref_count' # 0
          /\ Signum(ref_count') = Signum(ref_count)
          /\ Abs(ref_count') = Abs(ref_count) + 1]_vars

\* C11: occupancy invariant. Between operations, with the cell allocated, the
\* slot holds the value (not moved out, not destroyed) exactly when ref_count
\* is positive; and every assume_init_read, in take and in the last drop, is
\* made on a slot that holds the value.
SlotOccupiedIffPositive ==
    [][/\ (pc' = "idle" /\ cell' = "allocated")
              => (slot' = "init" <=> ref_count' > 0)
       /\ reads' > reads => (slot = "init" /\ cell = "allocated" /\ ref_count > 0)]_vars

\* C11 witness: between operations, value taken, two handles still live.
EmptyWithTwoHandles ==
    /\ pc = "idle"
    /\ cell = "allocated"
    /\ ref_count = -2
    /\ slot = "moved"
    /\ reads = 1

\* C12: one-way emptiness. While the cell is allocated the sign of ref_count
\* changes only in a take that finds it positive, and then to negative; a
\* negative ref_count stays negative under every clone, drop and take, so take
\* keeps returning None.
EmptinessIsOneWay ==
    [][/\ (cell = "allocated" /\ Signum(ref_count') # Signum(ref_count))
              => (op' = "take" /\ pc = "idle" /\ ref_count > 0 /\ ref_count' < 0)
       /\ ref_count < 0 => (ref_count' < 0 /\ ~TakeMatch(ref_count').some)]_vars

\* C12 witness: after the take, a clone, a take that got None and a drop were
\* made, and the cell is still allocated and empty.
StillEmptyAfterCloneTakeDrop ==
    /\ cell = "allocated"
    /\ ref_count < 0
    /\ nextId >= 4
    /\ Len(takes) >= 2
    /\ takes[1].made < nextId
    /\ Cardinality(handles) + Len(takes) < nextId

\* C13: take on an occupied cell flips, then releases. The match turns n > 0
\* into -n; the drop of self then leaves -(n-1) with the cell allocated if
\* n > 1 and frees the cell if n = 1; the cell runs no destructor in either.
TakeFlipsThenReleases ==
    [][/\ (op' = "take" /\ pc = "idle" /\ ref_count > 0 /\ cell = "allocated")
              => /\ ref_count' = -ref_count
                 /\ ret' = Some(arg)
                 /\ pc' = "take_drop"
                 /\ self' \in handles'
                 /\ cell' = "allocated"
                 /\ destructs' = destructs
       /\ (pc = "take_drop" /\ ret.some /\ pc' = "idle")
              => /\ self \notin handles'
                 /\ destructs' = destructs
                 /\ ref_count < -1 =>
                        (ref_count' = ref_count + 1 /\ cell' = "allocated"
                            /\ frees' = frees)
                 /\ ref_count = -1 => (cell' = "freed" /\ frees' = frees + 1)
                 /\ ref_count < 0]_vars

\* C13 witness: take returned Some from a cell of three handles: counter -2.
TookFromThree ==
    /\ op = "take"
    /\ pc = "idle"
    /\ Len(takes) = 1
    /\ takes[1].ret.some
    /\ takes[1].live = 3
    /\ ref_count = -2
    /\ cell = "allocated"
    /\ destructs = 0

\* C14: take on an empty cell is a drop. At n < 0 the match returns None and
\* changes nothing in the cell; the drop of self then leaves n + 1 if n < -1
\* and frees the cell, with no destructor run, if n = -1: what DropMatch gives
\* for a plain drop at n.
TakeOnEmptyIsDrop ==
    [][/\ (op' = "take" /\ pc = "idle" /\ ref_count < 0 /\ cell = "allocated")
              => /\ ret' = None
                 /\ pc' = "take_drop"
                 /\ UNCHANGED <<cell, ref_count, value, slot, reads, destructs, frees>>
       /\ (pc = "take_drop" /\ ~ret.some /\ pc' = "idle")
              => /\ self \notin handles'
                 /\ UNCHANGED <<value, slot, reads, destructs>>
                 /\ ref_count < -1 =>
                        (ref_count' = ref_count + 1 /\ cell' = "allocated"
                            /\ frees' = frees)
                 /\ ref_count = -1 => (cell' = "freed" /\ frees' = frees + 1)
                 /\ ref_count < 0]_vars

\* C14 witness: the last handle of an empty cell was consumed by a take that
\* returned None: the cell is freed, no destructor ran.
LastHandleTakenEmpty ==
    /\ op = "take"
    /\ pc = "idle"
    /\ Len(takes) >= 2
    /\ ~takes[Len(takes)].ret.some
    /\ takes[Len(takes)].live = 1
    /\ cell = "freed"
    /\ destructs = 0

\* C15: dropping a handle that is not the last changes only the counter: one
\* step toward zero, same sign, cell still allocated, the value neither read,
\* moved nor destroyed.
DropOfNonLastOnlyCounts ==
    [][(op' = "drop" /\ cell = "allocated"
            /\ (ref_count > 1 \/ ref_count < -1))
          => /\ ref_count > 1 => ref_count' = ref_count - 1
             /\ ref_count < -1 => ref_count' = ref_count + 1
             /\ Signum(ref_count') = Signum(ref_count)
             /\ cell' = "allocated"
             /\ UNCHANGED <<value, slot, reads, destructs, frees, held, callerDrops>>
             /\ StrongCount' = StrongCount]_vars

\* C15 witness: of two handles of an occupied cell one was dropped; the
\* counter is 1 and the strong count still 2.
DroppedOneOfTwo ==
    /\ op = "drop"
    /\ nextId = 2
    /\ cell = "allocated"
    /\ ref_count = 1
    /\ slot = "init"
    /\ StrongCount = 2

\* C16: last drop. Dropping the last handle frees the cell; it
\* runs the value's destructor, on the occupied slot, exactly when the counter
\* is +1 and runs none when it is -1; a value that a take handed out is never
\* destroyed by the cell.
LastDropFreesAndDestroysIfOccupied ==
    [][/\ (op' = "drop" /\ cell = "allocated" /\ (ref_count = 1 \/ ref_count = -1))
              => /\ cell' = "freed"
                 /\ frees' = frees + 1
                 /\ handles' = {}
                 /\ ref_count = 1 =>
                        (destructs' = destructs + 1 /\ slot = "init"
                            /\ slot' = "dropped")
                 /\ ref_count = -1 =>
                        (destructs' = destructs /\ reads' = reads /\ slot' = slot)
       /\ HandedOut' >= 1 => destructs' = 0]_vars

\* C16 witness: the value was taken through one handle and the other, the
\* last, was dropped afterwards: cell freed, no destructor run by the cell.
TakeOneDropOne ==
    /\ op = "drop"
    /\ nextId = 2
    /\ cell = "freed"
    /\ Len(takes) = 1
    /\ takes[1].ret.some
    /\ destructs = 0
    /\ StrongCount >= 1

====
